---- MODULE Spec2Model ----
(***************************************************************************)
(* Model of folder/weird.py: 1-D finite-element analysis of a tapered rod  *)
(* (assembly of the global stiffness matrix, penalty boundary condition,   *)
(* dense linear solve, stress post-processing, analytical solution and     *)
(* the driver's sweeps over elements_list).                                *)
(*                                                                         *)
(* Numbers.  The program computes in IEEE-754 binary floating point.  The  *)
(* model computes in the same kind of arithmetic: sign, normalised binary  *)
(* mantissa, unbounded exponent, round-to-nearest-even after every         *)
(* operation, with inf and nan and numpy's / Python's two behaviours on a  *)
(* zero divisor.  The mantissa has MantBits = 27 bits instead of 53 so     *)
(* that every intermediate fits TLC's 32-bit integers; the exponent range  *)
(* is not limited (no value of the program comes near 1e308), and zero has *)
(* no sign (no result of the program depends on the sign of a zero).       *)
(***************************************************************************)
EXTENDS Integers, Sequences, FiniteSets, TLC

\* ------------------------------------------------------------------------
\* Floating point
\* ------------------------------------------------------------------------
MantBits == 27
TwoP     == 2^MantBits          \* mantissas of normal numbers: TwoP/2 .. TwoP-1
HalfP    == 2^(MantBits - 1)

\* A float is a zero, a normal number s * m * 2^e (s the sign, 1 or -1, and
\* HalfP <= m < TwoP), an infinity with its sign, or the nan.
Num(s, m, e) == [k |-> "num", s |-> s, m |-> m, e |-> e]
Zero    == [k |-> "zero"]
Inf(s)  == [k |-> "inf", s |-> s]
NaN     == [k |-> "nan"]

IsNaN(a)    == a.k = "nan"
IsInf(a)    == a.k = "inf"
IsZero(a)   == a.k = "zero"
IsFinite(a) == a.k \in {"num", "zero"}

Pow2(n) == 2^n

\* Number of bits of the natural number m (0 for 0).
RECURSIVE BitLen(_)
BitLen(m) == IF m = 0 THEN 0 ELSE 1 + BitLen(m \div 2)

\* The float nearest to s * m * 2^e, for any natural m below 2^31: ties go to
\* the even mantissa.
Pack(s, m, e) ==
  IF m = 0 THEN Zero
  ELSE LET n == BitLen(m) IN
       IF n <= MantBits
       THEN Num(s, m * Pow2(MantBits - n), e - (MantBits - n))
       ELSE LET k    == n - MantBits
                q    == m \div Pow2(k)
                r    == m % Pow2(k)
                half == Pow2(k - 1)
                up   == r > half \/ (r = half /\ q % 2 = 1)
                q1   == IF up THEN q + 1 ELSE q
            IN IF q1 = TwoP THEN Num(s, HalfP, e + k + 1)
               ELSE Num(s, q1, e + k)

FromInt(n) == IF n < 0 THEN Pack(-1, -n, 0) ELSE Pack(1, n, 0)

FNeg(a) == IF a.k = "nan" \/ IsZero(a) THEN a ELSE [a EXCEPT !.s = -a.s]
FAbs(a) == IF a.k = "nan" \/ IsZero(a) THEN a ELSE [a EXCEPT !.s = 1]

\* a + b for two nonzero finite floats, the exponent of a not below b's.
AddAligned(a, b) ==
  LET d   == a.e - b.e
      ma  == a.m * 8
      mb8 == b.m * 8
      mb  == IF d >= 31 THEN 1
             ELSE (mb8 \div Pow2(d)) + (IF mb8 % Pow2(d) = 0 THEN 0 ELSE
                     IF (mb8 \div Pow2(d)) % 2 = 1 THEN 0 ELSE 1)
      sum == a.s * ma + b.s * mb
  IN IF sum < 0 THEN Pack(-1, -sum, a.e - 3) ELSE Pack(1, sum, a.e - 3)

FAdd(a, b) ==
  IF a.k = "nan" \/ b.k = "nan" THEN NaN
  ELSE IF a.k = "inf" THEN (IF b.k = "inf" /\ b.s # a.s THEN NaN ELSE a)
  ELSE IF b.k = "inf" THEN b
  ELSE IF IsZero(a) THEN b
  ELSE IF IsZero(b) THEN a
  ELSE IF a.e >= b.e THEN AddAligned(a, b) ELSE AddAligned(b, a)

FSub(a, b) == FAdd(a, FNeg(b))

\* a * b for two nonzero finite floats: the 54-bit product of the mantissas is
\* kept to its top 30 bits, the rest ORed into the last one, and rounded.
MulNum(a, b) ==
  LET a1 == a.m \div 16384
      a0 == a.m % 16384
      b1 == b.m \div 16384
      b0 == b.m % 16384
      c  == a1 * b0 + a0 * b1
      w  == (c % 1024) * 16384 + a0 * b0
      hi == a1 * b1 * 16 + (c \div 1024) + (w \div Pow2(24))
      st == IF w % Pow2(24) = 0 THEN 0 ELSE 1
      m  == IF hi % 2 = 1 THEN hi ELSE hi + st
  IN Pack(a.s * b.s, m, a.e + b.e + 24)

FMul(a, b) ==
  IF a.k = "nan" \/ b.k = "nan" THEN NaN
  ELSE IF a.k = "inf" \/ b.k = "inf"
       THEN (IF IsZero(a) \/ IsZero(b) THEN NaN ELSE Inf(a.s * b.s))
  ELSE IF IsZero(a) \/ IsZero(b) THEN Zero
  ELSE MulNum(a, b)

\* Long division of the mantissas, four quotient bits at a time.
RECURSIVE DivDigits(_, _, _, _)
DivDigits(q, r, mb, n) ==
  IF n = 0 THEN <<q, r>>
  ELSE DivDigits(q * 16 + ((r * 16) \div mb), (r * 16) % mb, mb, n - 1)

DivNum(a, b) ==
  LET qr == DivDigits(a.m \div b.m, a.m % b.m, b.m, 7)
      q  == qr[1]
      m  == 2 * q + (IF qr[2] = 0 THEN 0 ELSE 1)
  IN Pack(a.s * b.s, m, a.e - b.e - 29)

\* numpy's float64 division: a zero divisor gives inf or nan (and a warning).
FDiv(a, b) ==
  IF a.k = "nan" \/ b.k = "nan" THEN NaN
  ELSE IF a.k = "inf" THEN (IF b.k = "inf" THEN NaN ELSE Inf(a.s * b.s))
  ELSE IF b.k = "inf" THEN Zero
  ELSE IF IsZero(b) THEN (IF IsZero(a) THEN NaN ELSE Inf(a.s))
  ELSE IF IsZero(a) THEN Zero
  ELSE DivNum(a, b)

\* a < b (false when either is nan).
FLt(a, b) ==
  IF a.k = "nan" \/ b.k = "nan" THEN FALSE
  ELSE LET key(x) == IF x.k = "inf" THEN <<x.s, 1, 0, 0>>
                     ELSE IF IsZero(x) THEN <<0, 0, 0, 0>>
                     ELSE <<x.s, 0, x.e, x.m>>
           ka == key(a)
           kb == key(b)
       IN IF ka[1] # kb[1] THEN ka[1] < kb[1]
          ELSE IF ka[1] = 0 THEN FALSE
          ELSE LET magLt(x, y) == x[2] < y[2] \/ (x[2] = y[2] /\ (x[3] < y[3]
                                     \/ (x[3] = y[3] /\ x[4] < y[4])))
               IN IF ka[1] = 1 THEN magLt(ka, kb) ELSE magLt(kb, ka)

FEq(a, b) == a.k # "nan" /\ b.k # "nan" /\ a = b
FLe(a, b) == FLt(a, b) \/ FEq(a, b)
FGt(a, b) == FLt(b, a)

\* |a - b| <= |b| / 2^20: equal up to rounding (about six decimal digits).
Close(a, b) ==
  FEq(a, b) \/ (IsFinite(a) /\ IsFinite(b)
                /\ FLe(FAbs(FSub(a, b)), FMul(FAbs(b), Num(1, HalfP, -(MantBits - 1) - 20))))

\* Python's float division: a zero divisor raises ZeroDivisionError.
PyDivRaises(a, b) == IsZero(b)

\* Terms of the series of exp summed by Exp (the model of numpy's exp).
ExpTerms == 12

\* sum + t + t*x/k + ... up to the term of index ExpTerms.
RECURSIVE ExpSeries(_, _, _, _)
ExpSeries(x, k, t, sum) ==
  IF k > ExpTerms THEN sum
  ELSE LET t1 == FDiv(FMul(t, x), FromInt(k))
       IN ExpSeries(x, k + 1, t1, FAdd(sum, t1))

\* np.exp: the exponential to the precision of the arithmetic. Arguments of
\* magnitude above 1 are halved and the result squared.
RECURSIVE Exp(_)
Exp(x) ==
  IF x.k = "nan" THEN NaN
  ELSE IF x.k = "inf" THEN (IF x.s = 1 THEN x ELSE Zero)
  ELSE IF IsZero(x) THEN FromInt(1)
  ELSE IF x.e + MantBits > 0
       THEN LET h == Exp(Num(x.s, x.m, x.e - 1)) IN FMul(h, h)
  ELSE ExpSeries(x, 1, FromInt(1), FromInt(1))

\* ------------------------------------------------------------------------
\* The program
\* ------------------------------------------------------------------------
VARIABLES
  L, E, F, A0, alpha_modified,   \* the module-level constants (lines 5-9)
  pc,                            \* where the run is
  N, dx, i,                      \* fem_displacement_modified / assembly locals
  K, f, u,                       \* stiffness matrix, force vector, displacement
  lu_a, lu_b, col,               \* np.linalg.solve: its copies of K and f, its column
  sigma,                         \* result of stress
  x_arg, u_analytical,           \* argument and result of the analytical solution
  exc,                           \* the exception that ended the run, or "none"
  exc_at,                        \* the function whose line raised it, or "none"
  calls,                         \* number of calls of fem_displacement_modified
  returned,                      \* N -> the field the first call with N returned
  sweep_pos,                     \* position of the error sweep in elements_list
  error_sweep                    \* the error fields of the sweep so far, in order

vars == <<L, E, F, A0, alpha_modified, pc, N, dx, i, K, f, u, lu_a, lu_b, col, sigma,
          x_arg, u_analytical, exc, exc_at, calls, returned, sweep_pos, error_sweep>>

consts == <<L, E, F, A0, alpha_modified>>
sweep  == <<sweep_pos, error_sweep>>
lu     == <<lu_a, lu_b, col>>

\* The literals of the source.
L_src     == FromInt(1)                                  \* 1.0
E_src     == FMul(FromInt(200), FromInt(1000000000))     \* 200e9
F_src     == FromInt(1000)                               \* 1000
A0_src    == FDiv(FromInt(1), FromInt(100))              \* 0.01
alpha_src == FromInt(1)                                  \* 1
\* Mutant of LARGE_PENALTY: the exponent's zero lost, 1e2 for 1e20.
LARGE_PENALTY_1e2 == FromInt(100)
LARGE_PENALTY == FMul(FromInt(1000000000), FMul(FromInt(1000000000), FromInt(100)))  \* 1e20
Half      == FDiv(FromInt(1), FromInt(2))                \* 0.5

NoVector == <<>>

\* How the variables K and lu_a hold a dense (n x n) array: its size and its
\* entries other than 0.0, by <<row, column>>. Load gives the array back, every
\* entry of it; Store keeps it. No operation of the program sees the difference.
Store(M) ==
  [size |-> Cardinality(DOMAIN M),
   nz   |-> [p \in {q \in (DOMAIN M) \X (DOMAIN M) : ~IsZero(M[q[1]][q[2]])}
               |-> M[p[1]][p[2]]]]

Load(S) ==
  [r \in 0..(S.size - 1) |-> [c \in 0..(S.size - 1) |->
     IF <<r, c>> \in DOMAIN S.nz THEN S.nz[<<r, c>>] ELSE Zero]]

NoMatrix == [size |-> 0, nz |-> <<>>]

\* Mutant of area_modified: the taper dropped, the area A0 at every x.
area_modified_constant(x) == A0

\* area_modified(x): A0 * exp(alpha * x)
area_modified(x) == FMul(A0, Exp(FMul(alpha_modified, x)))

\* Mutant of local_stiffness_matrix: the signs of the pattern exchanged,
\* [[-1, 1], [1, -1]].
local_stiffness_matrix_signs(A_mid, d) ==
  LET c == FDiv(FMul(E, A_mid), d)
  IN [r \in 0..1 |-> [s \in 0..1 |->
        FMul(c, IF r = s THEN FromInt(-1) ELSE FromInt(1))]]

\* local_stiffness_matrix(A_mid, dx): (E * A_mid / dx) * [[1, -1], [-1, 1]];
\* the division is numpy's (A_mid is a float64), so dx = 0 does not raise.
local_stiffness_matrix(A_mid, d) ==
  LET c == FDiv(FMul(E, A_mid), d)
  IN [r \in 0..1 |-> [s \in 0..1 |->
        FMul(c, IF r = s THEN FromInt(1) ELSE FromInt(-1))]]

\* The element matrix the loop body of assemble_global_stiffness_matrix forms
\* for element e (lines 29-35).
element_matrix(e, d) ==
  LET x_i   == FMul(FromInt(e), d)
      x_ip1 == FMul(FromInt(e + 1), d)
      x_mid == FMul(Half, FAdd(x_i, x_ip1))
      A_mid == area_modified(x_mid)
  IN local_stiffness_matrix(A_mid, d)

\* np.zeros((n+1, n+1)) and np.zeros(n+1)
zeros_matrix(n) == [r \in 0..n |-> [c \in 0..n |-> Zero]]
zeros_vector(n) == [r \in 0..n |-> Zero]

\* Mutant of add_block: the block assigned (=) instead of accumulated (+=).
add_block_overwrite(M, e, k_local) ==
  [r \in DOMAIN M |-> [c \in DOMAIN M[r] |->
     IF r \in {e, e + 1} /\ c \in {e, e + 1}
     THEN k_local[r - e][c - e]
     ELSE M[r][c]]]

\* K[e:e+2, e:e+2] += k_local
add_block(M, e, k_local) ==
  [r \in DOMAIN M |-> [c \in DOMAIN M[r] |->
     IF r \in {e, e + 1} /\ c \in {e, e + 1}
     THEN FAdd(M[r][c], k_local[r - e][c - e])
     ELSE M[r][c]]]

\* Mutant of apply_boundary_conditions: K[0] += 1e20, the penalty added to
\* the whole first row.
apply_boundary_conditions_row(M, b) ==
  [K |-> [M EXCEPT ![0] = [c \in DOMAIN M[0] |-> FAdd(M[0][c], LARGE_PENALTY)]],
   f |-> b]

\* apply_boundary_conditions(K, f): K[0, 0] += 1e20; f is returned as it is.
apply_boundary_conditions(M, b) ==
  [K |-> [M EXCEPT ![0][0] = FAdd(M[0][0], LARGE_PENALTY)], f |-> b]

\* ---- np.linalg.solve: LAPACK's gesv, LU with partial pivoting ----------

\* idamax: of the rows at or below c, the first whose entry in column c has the
\* largest magnitude. The scan replaces its candidate only by a strictly larger
\* magnitude, so a nan never replaces one, and a nan in row c is never replaced.
PivotRow(M, c) ==
  LET rows   == {r \in DOMAIN M : r >= c}
      mag(r) == FAbs(M[r][c])
      top    == {r \in rows : ~IsNaN(mag(r)) /\ \A q \in rows : ~FGt(mag(q), mag(r))}
  IN IF IsNaN(M[c][c]) \/ top = {} THEN c
     ELSE CHOOSE r \in top : \A q \in top : r <= q

SwapRows(M, a, b) ==
  [r \in DOMAIN M |-> IF r = a THEN M[b] ELSE IF r = b THEN M[a] ELSE M[r]]

\* One column of the elimination: rows below c get row c times their
\* multiplier subtracted, in the matrix and in the right-hand side. Where the
\* multiplier or the entry of row c is zero and the other factor finite, the
\* subtraction leaves the value as it is, and the model does not evaluate it.
EliminateColumn(M, y, c) ==
  LET piv   == M[c][c]
      mult  == [r \in DOMAIN M |-> IF r > c THEN FDiv(M[r][c], piv) ELSE Zero]
      rowOK == (\A j \in DOMAIN M : IsFinite(M[c][j])) /\ IsFinite(y[c])
      skip(r) == IsZero(mult[r]) /\ rowOK
      upd(a, m, b) == IF IsZero(b) /\ IsFinite(m) THEN a ELSE FSub(a, FMul(m, b))
  IN [M |-> [r \in DOMAIN M |->
               IF r <= c \/ skip(r) THEN M[r]
               ELSE [j \in DOMAIN M |->
                       IF j < c THEN M[r][j]
                       ELSE IF j = c THEN Zero
                       ELSE upd(M[r][j], mult[r], M[c][j])]],
      y |-> [r \in DOMAIN M |->
               IF r <= c \/ skip(r) THEN y[r] ELSE upd(y[r], mult[r], y[c])]]

\* getrs, back substitution with the upper triangle: unknown k is y[k] / U[k][k]
\* and is taken out of the rows above.
BackColumn(U, y, k) ==
  LET xk == FDiv(y[k], U[k][k])
  IN [r \in DOMAIN y |->
        IF r = k THEN xk
        ELSE IF r > k THEN y[r]
        ELSE IF IsZero(U[r][k]) /\ IsFinite(xk) THEN y[r]
        ELSE FSub(y[r], FMul(xk, U[r][k]))]

\* np.diff(u)
diff(v) == [j \in 0..(Cardinality(DOMAIN v) - 2) |-> FSub(v[j + 1], v[j])]

\* stress(u, N, dx): du_dx = np.diff(u) / dx; return (E / dx) * du_dx.
\* E / dx divides two Python floats and raises when dx is zero.
stress(v, n, d) ==
  LET du_dx == [j \in DOMAIN diff(v) |-> FDiv(diff(v)[j], d)]
  IN IF PyDivRaises(E, d) THEN [ok |-> FALSE, val |-> NoVector]
     ELSE [ok |-> TRUE, val |-> [j \in DOMAIN du_dx |-> FMul(FDiv(E, d), du_dx[j])]]

\* analytical_displacement_modified(x):
\*   (F / (E * A0 * alpha)) * (1 - exp(-alpha * x))
\* F / (...) divides two Python numbers and raises when the divisor is zero.
analytical_displacement_modified(x) ==
  LET den == FMul(FMul(E, A0), alpha_modified)
  IN IF PyDivRaises(F, den) THEN [ok |-> FALSE, val |-> Zero]
     ELSE [ok |-> TRUE,
           val |-> FMul(FDiv(F, den),
                        FSub(FromInt(1), Exp(FMul(FNeg(alpha_modified), x))))]

\* np.linspace(0, L, n + 1)[j]: j steps of L / n from 0, the last point L itself.
linspace(n, j) == IF j = n THEN L ELSE FMul(FromInt(j), FDiv(L, FromInt(n)))

\* ------------------------------------------------------------------------
\* Bounds and inputs
\* ------------------------------------------------------------------------
MaxN     == 3     \* element counts 0..MaxN
MaxCalls == 3     \* calls of fem_displacement_modified in one run
XGrid    == 2     \* the analytical solution is evaluated at j * L / XGrid

\* The values the module-level constants are drawn from: the source's, and
\* for L, E, A0 a zero and a negative one, for alpha the degenerate 0 and 2.
L_values     == {L_src, Zero, FNeg(L_src)}
E_values     == {E_src, Zero, FNeg(E_src)}
A0_values    == {A0_src, Zero, FNeg(A0_src)}
alpha_values == {alpha_src, Zero, FromInt(2)}

\* The RodModel invariants of the data model: length, modulus, area positive.
ValidModel == FGt(L, Zero) /\ FGt(E, Zero) /\ FGt(A0, Zero)

\* What every run starts with, whatever the constants.
Start ==
  /\ pc = "main"
  /\ N = 0
  /\ dx = Zero
  /\ i = 0
  /\ K = NoMatrix
  /\ f = NoVector
  /\ u = NoVector
  /\ lu_a = NoMatrix
  /\ lu_b = NoVector
  /\ col = 0
  /\ sigma = NoVector
  /\ x_arg = Zero
  /\ u_analytical = Zero
  /\ exc = "none"
  /\ exc_at = "none"
  /\ calls = 0
  /\ returned = <<>>
  /\ sweep_pos = 1
  /\ error_sweep = <<>>

\* The source's model, or the source's model with one of L, E, A0 replaced,
\* with any of the taper rates.
Init ==
  /\ L \in L_values
  /\ E \in E_values
  /\ A0 \in A0_values
  /\ Cardinality({c \in {"L", "E", "A0"} :
                    \/ c = "L" /\ L # L_src
                    \/ c = "E" /\ E # E_src
                    \/ c = "A0" /\ A0 # A0_src}) <= 1
  /\ alpha_modified \in alpha_values
  /\ F = F_src
  /\ Start

\* fem_displacement_modified(n), line 49: dx = L / N (Python division).
fem_call(n) ==
  /\ pc = "main"
  /\ calls' = calls + 1
  /\ N' = n
  /\ IF PyDivRaises(L, FromInt(n))
     THEN /\ pc' = "raised"
          /\ exc' = "ZeroDivisionError"
          /\ exc_at' = "fem_displacement_modified"
          /\ dx' = dx
     ELSE /\ pc' = "assemble"
          /\ UNCHANGED <<exc, exc_at>>
          /\ dx' = FDiv(L, FromInt(n))
  /\ UNCHANGED <<consts, lu, i, K, f, u, sigma, x_arg, u_analytical, returned>>

\* A call with any element count, in any order.
CallFem ==
  /\ calls < MaxCalls
  /\ \E n \in 0..MaxN : fem_call(n)
  /\ UNCHANGED sweep

\* Mutant of AssembleStart: the matrix of the last run is kept when it has the
\* shape asked for, instead of a fresh np.zeros.
AssembleStart_reuse ==
  /\ pc = "assemble"
  /\ dx' = FDiv(L, FromInt(N))
  /\ K' = IF K.size = N + 1 THEN K ELSE Store(zeros_matrix(N))
  /\ i' = 0
  /\ pc' = "loop"
  /\ UNCHANGED <<consts, lu, sweep, N, f, u, sigma, x_arg, u_analytical, exc, exc_at, calls, returned>>

\* assemble_global_stiffness_matrix, lines 25-26: dx = L / N, K = zeros.
AssembleStart ==
  /\ pc = "assemble"
  /\ dx' = FDiv(L, FromInt(N))
  /\ K' = Store(zeros_matrix(N))
  /\ i' = 0
  /\ pc' = "loop"
  /\ UNCHANGED <<consts, lu, sweep, N, f, u, sigma, x_arg, u_analytical, exc, exc_at, calls, returned>>

\* One pass of the loop, lines 28-38.
AssembleStep ==
  /\ pc = "loop"
  /\ i < N
  /\ K' = Store(add_block(Load(K), i, element_matrix(i, dx)))
  /\ i' = i + 1
  /\ UNCHANGED <<consts, lu, sweep, pc, N, dx, f, u, sigma, x_arg, u_analytical, exc, exc_at, calls, returned>>

\* The loop is over: return K (line 40); f = zeros, f[-1] = F (lines 51-52).
BuildForce ==
  /\ pc = "loop"
  /\ i = N
  /\ f' = [zeros_vector(N) EXCEPT ![N] = F]
  /\ pc' = "bc"
  /\ UNCHANGED <<consts, lu, sweep, N, dx, i, K, u, sigma, x_arg, u_analytical, exc, exc_at, calls, returned>>

\* K, f = apply_boundary_conditions(K, f), line 55.
ApplyBC ==
  /\ pc = "bc"
  /\ K' = Store(apply_boundary_conditions(Load(K), f).K)
  /\ f' = apply_boundary_conditions(Load(K), f).f
  /\ pc' = "solve"
  /\ UNCHANGED <<consts, lu, sweep, N, dx, i, u, sigma, x_arg, u_analytical, exc, exc_at, calls, returned>>

\* u = np.linalg.solve(K, f), line 58: the solver works on copies of K and f.
SolveStart ==
  /\ pc = "solve"
  /\ lu_a' = K
  /\ lu_b' = f
  /\ col' = 0
  /\ pc' = "factor"
  /\ UNCHANGED <<consts, sweep, N, dx, i, K, f, u, sigma, x_arg, u_analytical,
                 exc, exc_at, calls, returned>>

\* getrf, one column: choose the pivot row, exchange, eliminate below. A pivot
\* that is exactly zero makes the matrix singular (info > 0) and
\* np.linalg.solve raises LinAlgError.
FactorStep ==
  /\ pc = "factor"
  /\ col <= N
  /\ LET a == Load(lu_a)
         p == PivotRow(a, col)
     IN IF IsZero(a[p][col])
        THEN /\ pc' = "raised"
             /\ exc' = "LinAlgError"
             /\ exc_at' = "solve"
             /\ UNCHANGED lu
        ELSE LET el == EliminateColumn(SwapRows(a, col, p), SwapRows(lu_b, col, p), col)
             IN /\ lu_a' = Store(el.M)
                /\ lu_b' = el.y
                /\ col' = col + 1
                /\ UNCHANGED <<pc, exc, exc_at>>
  /\ UNCHANGED <<consts, sweep, N, dx, i, K, f, u, sigma, x_arg, u_analytical,
                 calls, returned>>

\* The factorisation is complete: getrs starts from the last unknown.
FactorDone ==
  /\ pc = "factor"
  /\ col = N + 1
  /\ col' = N
  /\ pc' = "back"
  /\ UNCHANGED <<consts, sweep, N, dx, i, K, f, u, lu_a, lu_b, sigma, x_arg, u_analytical,
                 exc, exc_at, calls, returned>>

\* getrs, one unknown.
BackStep ==
  /\ pc = "back"
  /\ col >= 0
  /\ lu_b' = BackColumn(Load(lu_a), lu_b, col)
  /\ col' = col - 1
  /\ UNCHANGED <<consts, sweep, N, dx, i, K, f, u, lu_a, pc, sigma, x_arg, u_analytical,
                 exc, exc_at, calls, returned>>

\* np.linalg.solve returns the solution: u is bound to it.
SolveDone ==
  /\ pc = "back"
  /\ col < 0
  /\ u' = lu_b
  /\ pc' = "return"
  /\ UNCHANGED <<consts, sweep, lu, N, dx, i, K, f, sigma, x_arg, u_analytical,
                 exc, exc_at, calls, returned>>

\* return u, line 60: the caller has the field.
Return ==
  /\ pc = "return"
  /\ pc' = "have_u"
  /\ returned' = IF N \in DOMAIN returned THEN returned ELSE (N :> u) @@ returned
  /\ UNCHANGED <<consts, lu, sweep, N, dx, i, K, f, u, sigma, x_arg, u_analytical, exc, exc_at, calls>>

\* The driver's use of the field: dx = L / N; stress(u, N, dx) (lines 95-96).
CallStress ==
  /\ pc = "have_u"
  /\ LET r == stress(u, N, FDiv(L, FromInt(N)))
     IN IF r.ok
        THEN /\ sigma' = r.val
             /\ pc' = "have_sigma"
             /\ UNCHANGED <<exc, exc_at>>
        ELSE /\ sigma' = sigma
             /\ pc' = "raised"
             /\ exc' = "ZeroDivisionError"
             /\ exc_at' = "stress"
  /\ UNCHANGED <<consts, lu, sweep, N, dx, i, K, f, u, x_arg, u_analytical, calls, returned>>

\* The driver has plotted what it computed and goes on to its next mesh size;
\* the names of the results are rebound there before they are read again.
Continue ==
  /\ pc \in {"have_u", "have_sigma", "have_analytical"}
  /\ pc' = "main"
  /\ sigma' = NoVector
  /\ x_arg' = Zero
  /\ u_analytical' = Zero
  /\ UNCHANGED <<consts, lu, sweep, N, dx, i, K, f, u, exc, exc_at, calls, returned>>

\* analytical_displacement_modified(x) at a point of np.linspace(0, L, XGrid + 1)
\* (lines 68-69, 113).
CallAnalytical ==
  /\ pc = "main"
  /\ \E j \in 0..XGrid :
       LET x == linspace(XGrid, j)
           r == analytical_displacement_modified(x)
       IN /\ x_arg' = x
          /\ IF r.ok
             THEN /\ u_analytical' = r.val
                  /\ pc' = "have_analytical"
                  /\ UNCHANGED <<exc, exc_at>>
             ELSE /\ u_analytical' = u_analytical
                  /\ pc' = "raised"
                  /\ exc' = "ZeroDivisionError"
                  /\ exc_at' = "analytical_displacement_modified"
  /\ UNCHANGED <<consts, lu, sweep, N, dx, i, K, f, u, sigma, calls, returned>>

\* ---- the error sweep of the driver, lines 107-116 ------------------------
elements_list == <<4, 8, 32, 128>>

\* for N in elements_list: u_fem_modified = fem_displacement_modified(N)
SweepCall ==
  /\ sweep_pos <= Len(elements_list)
  /\ fem_call(elements_list[sweep_pos])
  /\ UNCHANGED sweep

\* x_fem = np.linspace(0, L, N+1); the analytical solution at the nodes;
\* error = np.abs(u_fem_modified - u_analytical_at_nodes)  (lines 111-114)
SweepError ==
  /\ pc = "have_u"
  /\ LET at_nodes == [j \in 0..N |-> analytical_displacement_modified(linspace(N, j))]
     IN IF \A j \in 0..N : at_nodes[j].ok
        THEN /\ error_sweep' = Append(error_sweep,
                                 [j \in 0..N |-> FAbs(FSub(u[j], at_nodes[j].val))])
             /\ sweep_pos' = sweep_pos + 1
             /\ pc' = "main"
             /\ UNCHANGED <<exc, exc_at>>
        ELSE /\ pc' = "raised"
             /\ exc' = "ZeroDivisionError"
             /\ exc_at' = "analytical_displacement_modified"
             /\ UNCHANGED sweep
  /\ UNCHANGED <<consts, lu, N, dx, i, K, f, u, sigma, x_arg, u_analytical, calls, returned>>

\* The script's own run of the sweep: the constants are the source's.
SweepInit ==
  /\ L = L_src
  /\ E = E_src
  /\ A0 = A0_src
  /\ alpha_modified = alpha_src
  /\ F = F_src
  /\ Start

SweepNext ==
  \/ SweepCall
  \/ AssembleStart
  \/ AssembleStep
  \/ BuildForce
  \/ ApplyBC
  \/ SolveStart
  \/ FactorStep
  \/ FactorDone
  \/ BackStep
  \/ SolveDone
  \/ Return
  \/ SweepError

SweepSpec == SweepInit /\ [][SweepNext]_vars

Next ==
  \/ CallFem
  \/ AssembleStart
  \/ AssembleStep
  \/ BuildForce
  \/ ApplyBC
  \/ SolveStart
  \/ FactorStep
  \/ FactorDone
  \/ BackStep
  \/ SolveDone
  \/ Return
  \/ CallStress
  \/ Continue
  \/ CallAnalytical

Spec == Init /\ [][Next]_vars

\* ------------------------------------------------------------------------
\* Properties
\* ------------------------------------------------------------------------
Tolerance == FDiv(FromInt(1), FromInt(1000000))          \* 1e-6

\* A call of fem_displacement_modified has returned its field u.
FieldReturned == pc \in {"return", "have_u", "have_sigma"}

\* C1: for every N >= 1 (and a model that keeps the RodModel invariants)
\* fem_displacement_modified(N) returns, not raises, and the field it returns
\* has exactly N + 1 entries, with |field[0]| < 1e-6 * |field[N]|.
C1_FixedNodeWithinTolerance ==
  /\ (FieldReturned /\ ValidModel) =>
        /\ DOMAIN u = 0..N
        /\ N >= 1
        /\ FLt(FAbs(u[0]), FMul(Tolerance, FAbs(u[N])))
  /\ (pc = "raised" /\ exc_at \in {"fem_displacement_modified", "solve"} /\ ValidModel)
        => N = 0

C1_Witness == pc = "have_u" /\ ValidModel /\ N >= 2 /\ ~IsZero(u[N])

\* C2: stress returns N entries, stress[i] = E * (u[i+1] - u[i]) / dx (up to
\* rounding), for a field of a model that keeps the RodModel invariants.
C2_StressIsHookeOnce ==
  (pc = "have_sigma" /\ ValidModel) =>
     /\ DOMAIN sigma = 0..(N - 1)
     /\ \A j \in 0..(N - 1) :
          Close(sigma[j], FDiv(FMul(E, FSub(u[j + 1], u[j])), dx))

\* C3: with alpha = 0, analytical_displacement_modified(x) returns
\* F * x / (E * A0) (up to rounding) and does not raise.
C3_DegenerateTaper ==
  (ValidModel /\ IsZero(alpha_modified)
     /\ (pc = "have_analytical" \/ exc_at = "analytical_displacement_modified")) =>
     /\ pc = "have_analytical"
     /\ IsFinite(u_analytical)
     /\ Close(u_analytical, FDiv(FMul(F, x_arg), FMul(E, A0)))

\* C4: a call with N = 0 or with a model that breaks a RodModel invariant ends
\* in an error raised on entry, before any assembly or solve step, and never
\* yields a field.
C4_InvalidParameterRejected ==
  (calls >= 1 /\ (N = 0 \/ ~ValidModel)) =>
     /\ pc = "raised"
     /\ exc_at = "fem_displacement_modified"

\* C5: a call of fem_displacement_modified with an N that an earlier call had
\* returns the same field, bit for bit, whatever calls came in between.
C5_SameInputSameField ==
  (pc = "return" /\ N \in DOMAIN returned) => u = returned[N]

C5_Witness ==
  /\ pc = "return"
  /\ N \in DOMAIN returned
  /\ N >= 2
  /\ Cardinality(DOMAIN returned) >= 2
  /\ ValidModel

\* C6: for alpha >= 0 and F > 0 (and a model that keeps the RodModel
\* invariants) the returned field is non-decreasing: u[j] <= u[j+1].
C6_Monotone ==
  (FieldReturned /\ ValidModel /\ FLe(Zero, alpha_modified) /\ FGt(F, Zero)) =>
     \A j \in 0..(N - 1) : FLe(u[j], u[j + 1])

C6_Witness == pc = "have_u" /\ ValidModel /\ N >= 2 /\ FLt(u[0], u[N])

\* The stiffness k_e = E * A(x_mid_e) / dx of element e.
ElementK(e) ==
  LET x_mid == FMul(Half, FAdd(FMul(FromInt(e), dx), FMul(FromInt(e + 1), dx)))
  IN FDiv(FMul(E, area_modified(x_mid)), dx)

\* Entry (r, c) of the sum of the element matrices of elements 0..n-1.
AssembledEntry(r, c, n) ==
  IF r = c
  THEN FAdd(IF 1 <= r /\ r <= n THEN ElementK(r - 1) ELSE Zero,
            IF r < n THEN ElementK(r) ELSE Zero)
  ELSE IF r = c + 1 THEN (IF c < n THEN FNeg(ElementK(c)) ELSE Zero)
  ELSE IF c = r + 1 THEN (IF r < n THEN FNeg(ElementK(r)) ELSE Zero)
  ELSE Zero

\* C8: in the loop of assemble_global_stiffness_matrix, after elements 0..i-1,
\* K is the sum of their element matrices: symmetric, tridiagonal,
\* K[j][j] = k_(j-1) + k_j, K[j][j+1] = K[j+1][j] = -k_j, zero elsewhere; and so
\* it is on return (i = N).
C8_AssemblyAccumulates ==
  (pc \in {"loop", "bc"}) =>
     /\ K.size = N + 1
     /\ \A r \in 0..N : \A c \in 0..N :
          /\ Load(K)[r][c] = AssembledEntry(r, c, i)
          /\ Load(K)[r][c] = Load(K)[c][r]

C8_Witness == pc = "bc" /\ i = N /\ N >= 3 /\ ValidModel /\ ~IsZero(Load(K)[1][1])

\* C9: apply_boundary_conditions adds the penalty 1e20 to K[0][0] and changes
\* nothing else: every other entry of K and all of f stay, so the solver gets
\* f[N] = F and f[j] = 0 below.
C9_BoundaryConditionFrame ==
  [][pc = "bc" =>
       /\ Load(K')[0][0] = FAdd(Load(K)[0][0], LARGE_PENALTY)
       /\ \A r \in 0..N : \A c \in 0..N :
             (r # 0 \/ c # 0) => Load(K')[r][c] = Load(K)[r][c]
       /\ K'.size = K.size
       /\ f' = f
       /\ f'[N] = F
       /\ \A j \in 0..(N - 1) : f'[j] = Zero]_vars

C9_Witness ==
  /\ pc = "solve"
  /\ N >= 2
  /\ ValidModel
  /\ FLe(LARGE_PENALTY, Load(K)[0][0])
  /\ ~IsZero(Load(K)[1][1])

\* C10: a call never returns a field with a nan or infinite entry: a system
\* the solve step cannot solve ends in an error raised from it.
C10_NoGarbageField ==
  FieldReturned => \A j \in DOMAIN u : IsFinite(u[j])

\* The largest entry of a vector of floats without nan.
MaxError(v) ==
  CHOOSE m \in {v[j] : j \in DOMAIN v} : \A j \in DOMAIN v : ~FGt(v[j], m)

\* C7: with the source's constants the largest nodal error |u_FEM - u_analytical|
\* strictly decreases from each mesh size of the sweep 4, 8, 32, 128 to the next.
C7_ErrorDecreases ==
  \A j \in 2..Len(error_sweep) :
     FLt(MaxError(error_sweep[j]), MaxError(error_sweep[j - 1]))

C7_Witness ==
  /\ Len(error_sweep) = Len(elements_list)
  /\ \A j \in 1..Len(error_sweep) :
        /\ DOMAIN error_sweep[j] = 0..elements_list[j]
        /\ FGt(MaxError(error_sweep[j]), Zero)
====
